---- MODULE Spec2Model ----
(***************************************************************************)
(* PhysicsPositioning (src/src/object/PhysicsPositioning.py): the module   *)
(* that enrolls the mesh objects of the scene as rigid bodies, bakes the   *)
(* physics simulation in growing intervals until the objects have stopped  *)
(* moving, writes the poses of the last frame back to the objects and      *)
(* withdraws the rigid bodies.                                             *)
(*                                                                         *)
(* bpy (scene, point cache, operators) is outside the repository: a        *)
(* backend call either succeeds or raises, and the world pose the backend  *)
(* shows at a frame is any pose of WorldPoses.  Lengths and angles are in  *)
(* units of 0.005, so the default threshold 0.01 is 2.                     *)
(***************************************************************************)
EXTENDS Integers, Sequences, FiniteSets, TLC

\* ---------------------------------------------------------------- bounds
\* min_simulation_iterations and max_simulation_iterations range over 1..MaxIter
MaxIter == 4
\* simulation_iterations_increase_step ranges over -1..MaxStep
MaxStep == 2
\* vector coordinates of the evaluator's inputs range over 0..MaxCoord
MaxCoord == 2

\* ------------------------------------------------------------- the scene
Objects == {"cube", "floor"}

\* obj.type and the custom property obj["physics"]
ObjectKinds == [type : {"MESH", "LIGHT"}, physics : {"active", "passive"}]

\* str.upper() on the values of the custom property
Upper(s) == CASE s = "active" -> "ACTIVE"
              [] s = "passive" -> "PASSIVE"
              [] OTHER -> s

Vec(x, y, z) == <<x, y, z>>

Pose(l, r) == [location |-> l, rotation |-> r]

\* the transform every object has before the module runs
InitialPose == Pose(Vec(1, 1, 1), Vec(0, 0, 0))

\* the world poses the backend may show for an ACTIVE body at a frame
WorldPoses == { Pose(Vec(0, 0, 0), Vec(0, 0, 0)),
                Pose(Vec(3, 0, 0), Vec(0, 0, 0)),
                Pose(Vec(0, 0, 0), Vec(0, 0, 3)) }

\* a dict without entries
EmptyPoses == [o \in {} |-> InitialPose]

\* self.config.get_float("object_stopped_location_threshold", 0.01), 0.01 = 2 units
DefaultThreshold == 2

VARIABLES
  pc,                                   \* position in run()
  outcome,                              \* how run() ended
  config,                               \* min / max / step of the configuration
  object_stopped_location_threshold,    \* self.object_stopped_location_threshold
  object_stopped_rotation_threshold,    \* self.object_stopped_rotation_threshold
  objects,                              \* bpy.context.scene.objects: type and "physics"
  rigid_body,                           \* obj.rigid_body.type, "NONE" without rigid body
  stored,                               \* obj.location / obj.rotation_euler
  world,                                \* obj.matrix_world at the active frame
  frame_start,                          \* point_cache.frame_start
  frame_end,                            \* point_cache.frame_end
  baked,                                \* a bake is held and not freed
  frame_current,                        \* the scene's active frame
  it,                                   \* iterations of the for loop entered
  second_last_frame_poses,
  last_frame_poses,
  stopped,                              \* last result of _have_objects_stopped_moving
  obj_poses,                            \* the dict _do_simulation returned
  returned,                             \* _do_simulation has returned
  bakes,                                \* history: bakes issued
  frees,                                \* history: free_bake calls made
  settledLog,                           \* history: the evaluator's answers, per iteration
  captured,                             \* history: frame and poses of the last capture at a target frame
  calls,                                \* history: the backend calls of the current iteration
  poseWrites                            \* history: objects written by _set_pose

vars == <<pc, outcome, config, object_stopped_location_threshold,
          object_stopped_rotation_threshold, objects, rigid_body, stored, world,
          frame_start, frame_end, baked, frame_current, it,
          second_last_frame_poses, last_frame_poses, stopped, obj_poses, returned,
          bakes, frees, settledLog, captured, calls, poseWrites>>

min_simulation_iterations == config.min_simulation_iterations
max_simulation_iterations == config.max_simulation_iterations
simulation_iterations_increase_step == config.simulation_iterations_increase_step

\* ------------------------------------------------- the iteration schedule
\* variant: the stop value is taken as inclusive
RangeLenInclusive(start, stop, step) ==
  IF step > 0 /\ start <= stop THEN 1 + ((stop - start) \div step)
  ELSE IF step < 0 /\ start >= stop THEN 1 + ((start - stop) \div (0 - step))
  ELSE 0

\* variant: the start value is not counted
RangeLenStartExcluded(start, stop, step) ==
  IF step > 0 /\ start < stop THEN (stop - 1 - start) \div step
  ELSE IF step < 0 /\ start > stop THEN (start - 1 - stop) \div (0 - step)
  ELSE 0

\* len(range(start, stop, step)) for step /= 0
RangeLen(start, stop, step) ==
  IF step > 0 /\ start < stop THEN 1 + ((stop - 1 - start) \div step)
  ELSE IF step < 0 /\ start > stop THEN 1 + ((start - 1 - stop) \div (0 - step))
  ELSE 0

\* variant: the first value is one step after the start
RangeItemAfterStart(start, step, k) == start + k * step

\* the k-th value (k = 1, 2, ...) of range(start, stop, step)
RangeItem(start, step, k) == start + (k - 1) * step

\* variant: equal bounds are let through
ConfigInvalidStrict(min_it, max_it) == min_it > max_it

\* the guard of the configuration error
ConfigInvalid(min_it, max_it) == min_it >= max_it

\* variant: the `break` is missing
LoopEndsNoBreak(has_stopped, k, n) == k >= n

\* the loop is left after iteration k of n: by `break` when the objects have
\* stopped moving, or because the range is exhausted
LoopEnds(has_stopped, k, n) == has_stopped \/ k >= n

\* variant: the frame before is taken to be the previous target frame
SecondLastFramePreviousTarget(frame) == frame - simulation_iterations_increase_step

\* the frame the second last poses are read at
SecondLastFrame(frame) == frame - 1

\* the value of the loop variable in the current iteration
simulation_iterations ==
  RangeItem(min_simulation_iterations, simulation_iterations_increase_step, it)

\* ------------------------------------------- pose snapshot and evaluator
\* variant: the body type is not looked at
IsCapturedAnyBody(obj_type, body_type) == obj_type = "MESH"

\* the filter of _get_pose
IsCaptured(obj_type, body_type) == obj_type = "MESH" /\ body_type = "ACTIVE"

\* variant: an object whose translation is the zero vector is skipped
GetPoseSkipsOrigin(objs, rb, w) ==
  [o \in {x \in DOMAIN objs : /\ IsCaptured(objs[x].type, rb[x])
                               /\ w[x].location # Vec(0, 0, 0)} |->
      Pose(w[o].location, w[o].rotation)]

\* _get_pose: translation and euler rotation of the world matrix, per ACTIVE mesh
\* (the vectors are taken by value: a snapshot keeps what was read at its frame)
GetPose(objs, rb, w) ==
  [o \in {x \in DOMAIN objs : IsCaptured(objs[x].type, rb[x])} |->
      Pose(w[o].location, w[o].rotation)]

\* Vector - Vector
VecSub(a, b) == [i \in 1..3 |-> a[i] - b[i]]

\* variant: the absolute difference is compared
AxisExceedsAbsolute(diff, threshold) ==
  \E i \in 1..3 : (IF diff[i] < 0 THEN 0 - diff[i] ELSE diff[i]) > threshold

\* variant: a difference equal to the threshold counts as moving
AxisReaches(diff, threshold) == \E i \in 1..3 : diff[i] >= threshold

\* for i in range(3): if diff[i] > threshold: stopped = False
AxisExceeds(diff, threshold) == \E i \in 1..3 : diff[i] > threshold

\* the body of the loop over the objects: the object clears `stopped`
ObjectMoving(last_poses, new_poses, obj_name, loc_threshold, rot_threshold) ==
  \/ AxisExceeds(VecSub(last_poses[obj_name].location, new_poses[obj_name].location),
                 loc_threshold)
  \/ AxisExceeds(VecSub(last_poses[obj_name].rotation, new_poses[obj_name].rotation),
                 rot_threshold)

\* variant: without objects nothing counts as stopped
HaveObjectsStoppedMovingNonEmpty(last_poses, new_poses, loc_threshold, rot_threshold) ==
  /\ DOMAIN last_poses # {}
  /\ \A obj_name \in DOMAIN last_poses :
        ~ObjectMoving(last_poses, new_poses, obj_name, loc_threshold, rot_threshold)

\* _have_objects_stopped_moving: `stopped` starts True, the first moving object
\* clears it and ends the loop
HaveObjectsStoppedMoving(last_poses, new_poses, loc_threshold, rot_threshold) ==
  \A obj_name \in DOMAIN last_poses :
      ~ObjectMoving(last_poses, new_poses, obj_name, loc_threshold, rot_threshold)

\* variant: the poses are applied as offsets to the current transform
SetPoseResultAdditive(st, pose_dict) ==
  [o \in DOMAIN st |->
      IF o \in DOMAIN pose_dict
        THEN Pose([i \in 1..3 |-> st[o].location[i] + pose_dict[o].location[i]],
                  [i \in 1..3 |-> st[o].rotation[i] + pose_dict[o].rotation[i]])
        ELSE st[o]]

\* variant: the rotation is not written
SetPoseResultLocationOnly(st, pose_dict) ==
  [o \in DOMAIN st |->
      IF o \in DOMAIN pose_dict
        THEN Pose(pose_dict[o].location, st[o].rotation)
        ELSE st[o]]

\* _set_pose: location and rotation_euler of every key of pose_dict
SetPoseResult(st, pose_dict) ==
  [o \in DOMAIN st |->
      IF o \in DOMAIN pose_dict
        THEN Pose(pose_dict[o].location, pose_dict[o].rotation)
        ELSE st[o]]

\* _add_rigidbody: every mesh object gets a rigid body of type obj["physics"].upper()
AddRigidbodyResult(objs, rb) ==
  [o \in DOMAIN objs |->
      IF objs[o].type = "MESH" THEN Upper(objs[o].physics) ELSE rb[o]]

\* _remove_rigidbody: the rigid body of every mesh object is removed
RemoveRigidbodyResult(objs, rb) ==
  [o \in DOMAIN objs |-> IF objs[o].type = "MESH" THEN "NONE" ELSE rb[o]]

\* the world poses after frame_set: the backend moves the ACTIVE bodies,
\* every other object stays at its stored transform
WorldsAfterFrameSet(rb, st) ==
  { w \in [DOMAIN st -> WorldPoses \cup {st[o] : o \in DOMAIN st}] :
      \A o \in DOMAIN st : IF rb[o] = "ACTIVE" THEN w[o] \in WorldPoses
                                               ELSE w[o] = st[o] }

\* ------------------------------------------------------------------ run()
configVars == <<config, object_stopped_location_threshold,
                object_stopped_rotation_threshold, objects>>
cacheVars == <<frame_start, frame_end, baked, frame_current>>
loopVars == <<it, second_last_frame_poses, last_frame_poses, stopped>>
historyVars == <<bakes, frees, settledLog, captured, calls, poseWrites>>

\* an entry of the call history
Call(op, frame, poses) == [op |-> op, frame |-> frame, poses |-> poses]

Init ==
  /\ pc = "start"
  /\ outcome = "running"
  /\ config \in [min_simulation_iterations : 1..MaxIter,
                 max_simulation_iterations : 1..MaxIter,
                 simulation_iterations_increase_step : -1..MaxStep]
  /\ object_stopped_location_threshold = DefaultThreshold
  /\ object_stopped_rotation_threshold = DefaultThreshold
  /\ objects \in [Objects -> ObjectKinds]
  /\ rigid_body = [o \in Objects |-> "NONE"]
  /\ stored = [o \in Objects |-> InitialPose]
  /\ world = [o \in Objects |-> InitialPose]
  /\ frame_start \in {1, 2}
  /\ frame_end = 250
  /\ baked = FALSE
  /\ frame_current = 1
  /\ it = 0
  /\ second_last_frame_poses = EmptyPoses
  /\ last_frame_poses = EmptyPoses
  /\ stopped = FALSE
  /\ obj_poses = EmptyPoses
  /\ returned = FALSE
  /\ bakes = 0
  /\ frees = 0
  /\ settledLog = <<>>
  /\ captured = [frame |-> 0, poses |-> EmptyPoses]
  /\ calls = <<>>
  /\ poseWrites = {}

\* run(), line 30: self._add_rigidbody()
AddRigidbody ==
  /\ pc = "start"
  /\ rigid_body' = AddRigidbodyResult(objects, rigid_body)
  /\ pc' = "simulate"
  /\ UNCHANGED <<outcome, configVars, stored, world, cacheVars, loopVars,
                 obj_poses, returned, historyVars>>

\* variant: run() recovers from the exception and goes on with the poses read so far
SimulationRaisesRecovered(err) ==
  /\ pc' = "set_pose"
  /\ outcome' = err
  /\ obj_poses' = last_frame_poses
  /\ returned' = returned
  /\ UNCHANGED <<stored, rigid_body, poseWrites>>

\* an exception leaves _do_simulation: run() has no handler, so neither
\* _set_pose nor _remove_rigidbody is reached
SimulationRaises(err) ==
  /\ pc' = "done"
  /\ outcome' = err
  /\ UNCHANGED <<obj_poses, returned, stored, rigid_body, poseWrites>>

\* `return last_frame_poses` of _do_simulation, then line 33 of run()
SimulationReturns(poses) ==
  /\ obj_poses' = poses
  /\ returned' = TRUE
  /\ pc' = "set_pose"
  /\ outcome' = outcome
  /\ UNCHANGED <<stored, rigid_body, poseWrites>>

\* _do_simulation up to the first iteration of the loop
BeginSimulation ==
  /\ pc = "simulate"
  /\ frame_start' = 1
  /\ UNCHANGED <<configVars, world, frame_end, baked, frame_current,
                 second_last_frame_poses, last_frame_poses, stopped,
                 bakes, frees, settledLog, captured, calls>>
  /\ IF ConfigInvalid(min_simulation_iterations, max_simulation_iterations)
       THEN /\ SimulationRaises("config_error")
            /\ it' = it
       ELSE IF simulation_iterations_increase_step = 0
         \* range() arg 3 must not be zero
         THEN /\ SimulationRaises("value_error")
              /\ it' = it
         ELSE IF RangeLen(min_simulation_iterations, max_simulation_iterations,
                          simulation_iterations_increase_step) = 0
           \* the loop body never runs and last_frame_poses is unbound at the return
           THEN /\ SimulationRaises("unbound_error")
                /\ it' = it
           ELSE /\ it' = 1
                /\ pc' = "bake"
                /\ UNCHANGED <<outcome, obj_poses, returned, stored, rigid_body,
                               poseWrites>>

\* lines 79-80: point_cache.frame_end = simulation_iterations; ptcache.bake
Bake ==
  /\ pc = "bake"
  /\ frame_end' = simulation_iterations
  /\ bakes' = bakes + 1
  /\ calls' = <<Call("bake", frame_end', EmptyPoses)>>
  /\ UNCHANGED <<configVars, world, frame_start, frame_current, loopVars,
                 frees, settledLog, captured>>
  /\ \/ /\ baked' = TRUE
        /\ pc' = "prev"
        /\ UNCHANGED <<outcome, obj_poses, returned, stored, rigid_body, poseWrites>>
     \/ /\ baked' = baked
        /\ SimulationRaises("backend_error")

\* lines 83-84: frame_set(simulation_iterations - 1); second_last_frame_poses
CaptureSecondLast ==
  /\ pc = "prev"
  /\ UNCHANGED <<configVars, frame_start, frame_end, baked, it, last_frame_poses,
                 stopped, bakes, frees, settledLog, captured>>
  /\ \/ /\ frame_current' = SecondLastFrame(simulation_iterations)
        /\ world' \in WorldsAfterFrameSet(rigid_body, stored)
        /\ second_last_frame_poses' = GetPose(objects, rigid_body, world')
        /\ calls' = calls \o <<Call("frame_set", frame_current', EmptyPoses),
                               Call("get_pose", frame_current', second_last_frame_poses')>>
        /\ pc' = "last"
        /\ UNCHANGED <<outcome, obj_poses, returned, stored, rigid_body, poseWrites>>
     \/ /\ UNCHANGED <<frame_current, world, second_last_frame_poses>>
        /\ calls' = Append(calls, Call("frame_set", SecondLastFrame(simulation_iterations),
                                       EmptyPoses))
        /\ SimulationRaises("backend_error")

\* lines 87-88: frame_set(simulation_iterations); last_frame_poses
CaptureLast ==
  /\ pc = "last"
  /\ UNCHANGED <<configVars, frame_start, frame_end, baked, it,
                 second_last_frame_poses, stopped, bakes, frees, settledLog>>
  /\ \/ /\ frame_current' = simulation_iterations
        /\ world' \in WorldsAfterFrameSet(rigid_body, stored)
        /\ last_frame_poses' = GetPose(objects, rigid_body, world')
        /\ captured' = [frame |-> frame_current',
                        poses |-> GetPose(objects, rigid_body, world')]
        /\ calls' = calls \o <<Call("frame_set", frame_current', EmptyPoses),
                               Call("get_pose", frame_current', last_frame_poses')>>
        /\ pc' = "free"
        /\ UNCHANGED <<outcome, obj_poses, returned, stored, rigid_body, poseWrites>>
     \/ /\ UNCHANGED <<frame_current, world, last_frame_poses, captured>>
        /\ calls' = Append(calls, Call("frame_set", simulation_iterations, EmptyPoses))
        /\ SimulationRaises("backend_error")

\* lines 91-100: free_bake, the convergence check, and the end of the iteration
FreeBakeAndEvaluate ==
  /\ pc = "free"
  /\ frees' = frees + 1
  /\ UNCHANGED <<configVars, world, frame_start, frame_end, frame_current,
                 second_last_frame_poses, last_frame_poses, bakes, captured>>
  /\ \/ /\ baked' = FALSE
        /\ stopped' = HaveObjectsStoppedMoving(second_last_frame_poses, last_frame_poses,
                         object_stopped_location_threshold,
                         object_stopped_rotation_threshold)
        /\ settledLog' = Append(settledLog, stopped')
        /\ calls' = calls \o <<Call("free_bake", frame_end, EmptyPoses),
                               Call("evaluate", simulation_iterations, EmptyPoses)>>
        /\ IF LoopEnds(stopped', it, RangeLen(min_simulation_iterations,
                                              max_simulation_iterations,
                                              simulation_iterations_increase_step))
             THEN /\ it' = it
                  /\ SimulationReturns(last_frame_poses)
             ELSE /\ it' = it + 1
                  /\ pc' = "bake"
                  /\ UNCHANGED <<outcome, obj_poses, returned, stored, rigid_body,
                                 poseWrites>>
     \/ /\ UNCHANGED <<baked, stopped, settledLog, it>>
        /\ calls' = Append(calls, Call("free_bake", frame_end, EmptyPoses))
        /\ SimulationRaises("backend_error")

\* run(), line 34: self._set_pose(obj_poses)
SetPose ==
  /\ pc = "set_pose"
  /\ stored' = SetPoseResult(stored, obj_poses)
  /\ poseWrites' = poseWrites \cup DOMAIN obj_poses
  /\ pc' = "remove"
  /\ UNCHANGED <<outcome, configVars, rigid_body, world, cacheVars, loopVars,
                 obj_poses, returned, bakes, frees, settledLog, captured, calls>>

\* run(), line 37: self._remove_rigidbody()
RemoveRigidbody ==
  /\ pc = "remove"
  /\ rigid_body' = RemoveRigidbodyResult(objects, rigid_body)
  /\ pc' = "done"
  /\ outcome' = "ok"
  /\ UNCHANGED <<configVars, stored, world, cacheVars, loopVars, obj_poses,
                 returned, historyVars>>

Next ==
  \/ AddRigidbody
  \/ BeginSimulation
  \/ Bake
  \/ CaptureSecondLast
  \/ CaptureLast
  \/ FreeBakeAndEvaluate
  \/ SetPose
  \/ RemoveRigidbody

Spec == Init /\ [][Next]_vars

\* run() is straight-line code: every step that can be taken is taken
FairSpec == Spec /\ WF_vars(Next)

\* --------------------------------- the evaluator on its own, on drawn inputs
Zero == Vec(0, 0, 0)

\* vectors with at most one axis off zero
EvalVecs == {Zero} \cup UNION { {Vec(c, 0, 0), Vec(0, c, 0), Vec(0, 0, c)} : c \in 1..MaxCoord }

\* poses that differ from the origin in location or in rotation
EvalPoses == {Pose(v, Zero) : v \in EvalVecs} \cup {Pose(Zero, v) : v \in EvalVecs}

Tolerances == {0, 1}

\* two snapshots over the same keys and the two thresholds
EvalInit ==
  /\ pc = "eval_call"
  /\ outcome = "running"
  /\ config = [min_simulation_iterations |-> 1, max_simulation_iterations |-> 2,
               simulation_iterations_increase_step |-> 1]
  /\ object_stopped_location_threshold \in Tolerances
  /\ object_stopped_rotation_threshold \in Tolerances
  /\ objects = [o \in Objects |-> [type |-> "MESH", physics |-> "active"]]
  /\ rigid_body = [o \in Objects |-> "ACTIVE"]
  /\ stored = [o \in Objects |-> InitialPose]
  /\ world = [o \in Objects |-> InitialPose]
  /\ frame_start = 1
  /\ frame_end = 250
  /\ baked = FALSE
  /\ frame_current = 1
  /\ it = 0
  /\ \E keys \in SUBSET Objects :
        /\ second_last_frame_poses \in [keys -> EvalPoses]
        /\ last_frame_poses \in [keys -> EvalPoses]
  /\ stopped = FALSE
  /\ obj_poses = EmptyPoses
  /\ returned = FALSE
  /\ bakes = 0
  /\ frees = 0
  /\ settledLog = <<>>
  /\ captured = [frame |-> 0, poses |-> EmptyPoses]
  /\ calls = <<>>
  /\ poseWrites = {}

\* one call of _have_objects_stopped_moving(second_last_frame_poses, last_frame_poses)
Evaluate ==
  /\ pc = "eval_call"
  /\ stopped' = HaveObjectsStoppedMoving(second_last_frame_poses, last_frame_poses,
                   object_stopped_location_threshold,
                   object_stopped_rotation_threshold)
  /\ pc' = "eval_done"
  /\ UNCHANGED <<outcome, configVars, rigid_body, stored, world, cacheVars, it,
                 second_last_frame_poses, last_frame_poses, obj_poses, returned,
                 historyVars>>

EvalNext == Evaluate

EvalSpec == EvalInit /\ [][EvalNext]_vars

\* ------------------------------------ _set_pose on its own, on drawn inputs
\* any transforms of the scene objects and any pose dict over scene objects
ApplyInit ==
  /\ pc = "apply_call"
  /\ outcome = "running"
  /\ config = [min_simulation_iterations |-> 1, max_simulation_iterations |-> 2,
               simulation_iterations_increase_step |-> 1]
  /\ object_stopped_location_threshold = DefaultThreshold
  /\ object_stopped_rotation_threshold = DefaultThreshold
  /\ objects = [o \in Objects |-> [type |-> "MESH", physics |-> "active"]]
  /\ rigid_body = [o \in Objects |-> "ACTIVE"]
  /\ stored \in [Objects -> EvalPoses]
  /\ world = stored
  /\ frame_start = 1
  /\ frame_end = 250
  /\ baked = FALSE
  /\ frame_current = 1
  /\ it = 0
  /\ second_last_frame_poses = EmptyPoses
  /\ last_frame_poses = EmptyPoses
  /\ stopped = FALSE
  /\ \E keys \in SUBSET Objects : obj_poses \in [keys -> EvalPoses]
  /\ returned = TRUE
  /\ bakes = 0
  /\ frees = 0
  /\ settledLog = <<>>
  /\ captured = [frame |-> 0, poses |-> EmptyPoses]
  /\ calls = <<>>
  /\ poseWrites = {}

\* one call of _set_pose(obj_poses); it is made twice
ApplyPose ==
  /\ pc \in {"apply_call", "applied_once"}
  /\ stored' = SetPoseResult(stored, obj_poses)
  /\ poseWrites' = poseWrites \cup DOMAIN obj_poses
  /\ pc' = IF pc = "apply_call" THEN "applied_once" ELSE "applied_twice"
  /\ UNCHANGED <<outcome, configVars, rigid_body, world, cacheVars, loopVars,
                 obj_poses, returned, bakes, frees, settledLog, captured, calls>>

ApplyNext == ApplyPose

ApplySpec == ApplyInit /\ [][ApplyNext]_vars

TypeOK ==
  /\ pc \in {"start", "simulate", "bake", "prev", "last", "free", "set_pose",
             "remove", "done", "eval_call", "eval_done",
             "apply_call", "applied_once", "applied_twice"}
  /\ outcome \in {"running", "ok", "config_error", "value_error", "unbound_error",
                  "backend_error"}
  /\ bakes \in 0..MaxIter
  /\ frees \in 0..MaxIter

\* ------------------------------------------------------------ properties
ValidConfig ==
  /\ min_simulation_iterations < max_simulation_iterations
  /\ simulation_iterations_increase_step > 0

\* ceil(a / b) for b > 0
CeilDiv(a, b) == (a + b - 1) \div b

\* the target frame of iteration k (k = 1, 2, ...): min + (k - 1) * step
TargetFrame(k) ==
  min_simulation_iterations + (k - 1) * simulation_iterations_increase_step

\* the largest frame min + j * step below max_simulation_iterations
LastTargetFrame ==
  CHOOSE f \in min_simulation_iterations..(max_simulation_iterations - 1) :
    /\ (f - min_simulation_iterations) % simulation_iterations_increase_step = 0
    /\ f + simulation_iterations_increase_step >= max_simulation_iterations

SomeSettled == \E k \in 1..Len(settledLog) : settledLog[k]

FirstSettled ==
  CHOOSE k \in 1..Len(settledLog) :
    settledLog[k] /\ \A j \in 1..(k - 1) : ~settledLog[j]

AfterSimulation == pc \in {"set_pose", "remove", "done"}

UntouchedTransforms == stored = [o \in Objects |-> InitialPose]

Abs(x) == IF x < 0 THEN 0 - x ELSE x

\* C1: when the evaluator first answers "settled" in iteration k + 1 (target frame
\* min + k * step), the driver returns the snapshot captured at that frame, has made
\* exactly k + 1 bakes and k + 1 free_bakes, and no bake with a larger ceiling follows.
C1_ReturnsAtFirstSettledFrame ==
  (ValidConfig /\ SomeSettled) =>
     /\ returned
     /\ AfterSimulation
     /\ Len(settledLog) = FirstSettled
     /\ obj_poses = captured.poses
     /\ captured.frame = TargetFrame(FirstSettled)
     /\ bakes = FirstSettled
     /\ frees = FirstSettled
     /\ frame_end = TargetFrame(FirstSettled)
     /\ ~baked

\* C1 witness: settled first in the third iteration, and the run is over
C1_Witness ==
  /\ pc = "done"
  /\ outcome = "ok"
  /\ settledLog = <<FALSE, FALSE, TRUE>>
  /\ bakes = 3
  /\ DOMAIN obj_poses # {}

\* C2: with min < max and step > 0 the run ends, it never issues more than
\* ceil((max - min) / step) bakes, and unless the backend raised it ends with a snapshot.
C2_TerminatesWithinBudget ==
  /\ [](ValidConfig =>
          bakes <= CeilDiv(max_simulation_iterations - min_simulation_iterations,
                           simulation_iterations_increase_step))
  /\ [](ValidConfig /\ pc = "done" /\ outcome # "backend_error" =>
          returned /\ outcome = "ok")
  /\ (ValidConfig => <>(pc = "done"))

\* C2 witness: a run that used its whole budget of several bakes and returned
C2_Witness ==
  /\ ValidConfig
  /\ pc = "done"
  /\ returned
  /\ bakes >= 2
  /\ bakes = CeilDiv(max_simulation_iterations - min_simulation_iterations,
                     simulation_iterations_increase_step)

\* C3: with min < max and step > 0, when the evaluator never answers "settled" and the
\* driver returns, it ends without error and returns the snapshot captured at the last
\* target frame, the one below max with target + step >= max.
C3_BudgetExhaustionReturnsLastTarget ==
  (ValidConfig /\ returned /\ ~SomeSettled) =>
     /\ outcome \in {"running", "ok"}
     /\ (pc = "done" => outcome = "ok")
     /\ obj_poses = captured.poses
     /\ captured.frame = LastTargetFrame
     /\ captured.frame < max_simulation_iterations
     /\ captured.frame + simulation_iterations_increase_step >= max_simulation_iterations
     /\ Len(settledLog) = bakes

\* C3 witness: two iterations, never settled, the run ended normally
C3_Witness ==
  /\ pc = "done"
  /\ outcome = "ok"
  /\ settledLog = <<FALSE, FALSE>>
  /\ simulation_iterations_increase_step = 2
  /\ obj_poses = last_frame_poses
  /\ DOMAIN obj_poses # {}

\* C4: for step > 0 the run ends in the configuration error exactly when
\* min >= max, and the error is never raised when min < max.
C4_ConfigErrorIffMinNotBelowMax ==
  simulation_iterations_increase_step > 0 =>
     /\ (outcome = "config_error" =>
           min_simulation_iterations >= max_simulation_iterations)
     /\ (pc = "done" =>
           (outcome = "config_error" <=>
              min_simulation_iterations >= max_simulation_iterations))

\* C4 witness: the error raised on equal bounds
C4_Witness ==
  /\ pc = "done"
  /\ outcome = "config_error"
  /\ simulation_iterations_increase_step > 0
  /\ min_simulation_iterations = max_simulation_iterations

\* some axis of some object differs by more than its tolerance in absolute value
MovedBeyondTolerance ==
  \E o \in DOMAIN second_last_frame_poses : \E i \in 1..3 :
     \/ Abs(second_last_frame_poses[o].location[i] - last_frame_poses[o].location[i])
          > object_stopped_location_threshold
     \/ Abs(second_last_frame_poses[o].rotation[i] - last_frame_poses[o].rotation[i])
          > object_stopped_rotation_threshold

\* C5: the evaluator answers "not settled" exactly when some axis of some object
\* differs by more than its tolerance in absolute value (stated as claimed; the
\* code compares the signed difference).
C5_AbsoluteDifferenceDecides ==
  pc = "eval_done" => (stopped <=> ~MovedBeyondTolerance)

\* C6: whenever run() has ended, no object holds a rigid body any more
\* (stated as claimed; the code skips _remove_rigidbody when _do_simulation raises).
C6_WithdrawnOnEveryExit ==
  pc = "done" => \A o \in Objects : rigid_body[o] = "NONE"

\* C7: whenever control has left _do_simulation, by return or by an exception, no
\* bake is held (stated as claimed; the code frees the bake on the normal path only).
C7_BakeFreedOnEveryExit ==
  (returned \/ pc = "done") => ~baked

\* C8: no object transform is written before _do_simulation has returned, and when
\* the run ends in an error every stored transform is the one before the run.
C8_NoPoseWriteBeforeReturnOrOnError ==
  /\ (~returned => poseWrites = {} /\ UntouchedTransforms)
  /\ (outcome \notin {"running", "ok"} => poseWrites = {} /\ UntouchedTransforms)

\* C8 witness: a backend error after poses of an ACTIVE body were captured
C8_Witness ==
  /\ pc = "done"
  /\ outcome = "backend_error"
  /\ DOMAIN last_frame_poses # {}
  /\ UntouchedTransforms

\* C9: the evaluator answers "settled" on two equal snapshots, for thresholds >= 0.
C9_SettledOnEqualSnapshots ==
  (pc = "eval_done" /\ second_last_frame_poses = last_frame_poses) => stopped

\* C9 witness: equal snapshots of two objects off the origin, both thresholds 0
C9_Witness ==
  /\ pc = "eval_done"
  /\ second_last_frame_poses = last_frame_poses
  /\ DOMAIN last_frame_poses = Objects
  /\ \A o \in Objects : last_frame_poses[o] # Pose(Zero, Zero)
  /\ object_stopped_location_threshold = 0
  /\ object_stopped_rotation_threshold = 0
  /\ stopped

\* the mesh objects enrolled with body type ACTIVE
ActiveMeshes ==
  {o \in Objects : objects[o].type = "MESH" /\ Upper(objects[o].physics) = "ACTIVE"}

\* C10: the keys of every captured snapshot are exactly the MESH objects whose body
\* type is ACTIVE: no PASSIVE body, no non-mesh object, and no ACTIVE mesh left out.
C10_SnapshotKeysAreActiveMeshes ==
  /\ (pc \in {"last", "free"} => DOMAIN second_last_frame_poses = ActiveMeshes)
  /\ (pc = "free" =>
        /\ DOMAIN last_frame_poses = ActiveMeshes
        /\ \A o \in DOMAIN last_frame_poses :
              objects[o].type = "MESH" /\ rigid_body[o] = "ACTIVE"
        /\ \A o \in Objects \ DOMAIN last_frame_poses :
              objects[o].type # "MESH" \/ rigid_body[o] # "ACTIVE")
  /\ (returned => DOMAIN obj_poses = ActiveMeshes)

\* C10 witness: an ACTIVE cube and a PASSIVE floor, the snapshot holds the cube only
C10_Witness ==
  /\ pc = "free"
  /\ objects["cube"] = [type |-> "MESH", physics |-> "active"]
  /\ objects["floor"] = [type |-> "MESH", physics |-> "passive"]
  /\ DOMAIN last_frame_poses = {"cube"}

\* C11: the configuration error comes before any simulation work: the step that raises
\* it has issued no bake, free_bake, frame_set or pose capture and leaves the frame
\* range of the cache as it was (stated as claimed; the code sets frame_start first).
C11_ConfigErrorBeforeAnyWork ==
  [][outcome' = "config_error" =>
        /\ bakes' = 0
        /\ frees' = 0
        /\ calls' = <<>>
        /\ frame_current' = frame_current
        /\ second_last_frame_poses' = EmptyPoses
        /\ last_frame_poses' = EmptyPoses
        /\ frame_start' = frame_start
        /\ frame_end' = frame_end]_vars

\* C12: with min < max and step <= 0 the run ends in the configuration error, with no
\* bake issued (stated as claimed; the code never looks at the sign of the step).
C12_NonPositiveStepIsConfigError ==
  (/\ pc = "done"
   /\ min_simulation_iterations < max_simulation_iterations
   /\ simulation_iterations_increase_step <= 0)
     => (outcome = "config_error" /\ bakes = 0)

\* C13: the second application of a pose dict leaves every stored transform as the
\* first left it, and no application changes an object that is not a key of the dict.
C13_ApplyPoseIdempotent ==
  [][/\ (pc = "applied_once" /\ pc' = "applied_twice" => stored' = stored)
     /\ (pc' \in {"applied_once", "applied_twice"} =>
           \A o \in Objects \ DOMAIN obj_poses : stored'[o] = stored[o])]_vars

\* C13 witness: applied twice, the cube moved to its pose, the floor is not a key
C13_Witness ==
  /\ pc = "applied_twice"
  /\ DOMAIN obj_poses = {"cube"}
  /\ obj_poses["cube"] # Pose(Zero, Zero)
  /\ stored["cube"] = obj_poses["cube"]
  /\ stored["floor"] # stored["cube"]

\* the backend operations of one iteration with target frame f, in the order claimed
IterationOps == <<"bake", "frame_set", "get_pose", "frame_set", "get_pose",
                  "free_bake", "evaluate">>

IterationFrames(f) == <<f, f - 1, f - 1, f, f, f, f>>

\* C14: in every iteration the backend operations are, each once and in this order:
\* bake up to the target frame, frame_set and capture at target - 1, frame_set and
\* capture at target, free_bake, and then the convergence check, which is made on the
\* two snapshots captured in this iteration at target - 1 and target.
C14_IterationOrder ==
  /\ Len(calls) <= Len(IterationOps)
  /\ (bakes = 0 => calls = <<>> /\ settledLog = <<>>)
  /\ bakes >= 1 =>
       /\ Len(calls) >= 1
       /\ \A i \in 1..Len(calls) :
             /\ calls[i].op = IterationOps[i]
             /\ calls[i].frame = IterationFrames(TargetFrame(bakes))[i]
       /\ (Len(calls) >= 3 => second_last_frame_poses = calls[3].poses)
       /\ (Len(calls) >= 5 => last_frame_poses = calls[5].poses)
       /\ Len(settledLog) = IF Len(calls) = Len(IterationOps) THEN bakes ELSE bakes - 1
       /\ (Len(calls) = Len(IterationOps) =>
             settledLog[bakes] =
               HaveObjectsStoppedMoving(calls[3].poses, calls[5].poses,
                                        object_stopped_location_threshold,
                                        object_stopped_rotation_threshold))

\* C14 witness: the second iteration is complete and its two snapshots differ
C14_Witness ==
  /\ bakes = 2
  /\ Len(calls) = Len(IterationOps)
  /\ calls[3].poses # calls[5].poses
  /\ simulation_iterations_increase_step = 2

\* C15: with min < max and step > 0 the cache range starts at frame 1 once the driver
\* has begun, the n-th bake has the ceiling min + (n - 1) * step (so the first is min
\* and they grow by step), every ceiling is below max, no convergence decision comes
\* before the first bake, and the ceiling never passes the first settled target frame
\* by more than one step.
C15_BakeCeilings ==
  ValidConfig =>
     /\ (pc \notin {"start", "simulate"} => frame_start = 1)
     /\ (bakes >= 1 =>
           /\ frame_end = min_simulation_iterations
                            + (bakes - 1) * simulation_iterations_increase_step
           /\ frame_end < max_simulation_iterations)
     /\ Len(settledLog) <= bakes
     /\ (SomeSettled =>
           frame_end <= TargetFrame(FirstSettled) + simulation_iterations_increase_step)

\* C15 witness: the third bake of a run has been made
C15_Witness ==
  /\ ValidConfig
  /\ bakes = 3
  /\ pc = "prev"
  /\ frame_start = 1
  /\ frame_end = min_simulation_iterations + 2 * simulation_iterations_increase_step

\* some axis of some object has a signed difference prev - curr above its threshold
SignedDifferenceExceeds ==
  \E o \in DOMAIN second_last_frame_poses : \E i \in 1..3 :
     \/ second_last_frame_poses[o].location[i] - last_frame_poses[o].location[i]
          > object_stopped_location_threshold
     \/ second_last_frame_poses[o].rotation[i] - last_frame_poses[o].rotation[i]
          > object_stopped_rotation_threshold

CapturedKeySets ==
  {DOMAIN calls[i].poses : i \in {j \in 1..Len(calls) : calls[j].op = "get_pose"}}
    \cup (IF settledLog # <<>> THEN {DOMAIN second_last_frame_poses,
                                     DOMAIN last_frame_poses}
                               ELSE {})

\* C17: all snapshots captured during one run have the same key set, the ACTIVE mesh
\* bodies enrolled before the run, so the evaluator finds every key of prev in curr.
C17_SnapshotKeySetsAgree ==
  /\ \A keys \in CapturedKeySets : keys = ActiveMeshes
  /\ (Len(calls) >= 5 => DOMAIN second_last_frame_poses \subseteq DOMAIN last_frame_poses)

\* C17 witness: in the second iteration, after its first capture, with an ACTIVE mesh
C17_Witness ==
  /\ bakes = 2
  /\ Len(calls) = 3
  /\ ActiveMeshes # {}
  /\ CapturedKeySets = {ActiveMeshes}
  /\ second_last_frame_poses # last_frame_poses

\* C18: with min < max and step > 0 the loop body runs at least once, so the driver has
\* a snapshot to return; the return without a snapshot happens only outside min < max,
\* step > 0.
C18_LoopBodyRunsOnce ==
  /\ ValidConfig =>
       /\ outcome # "unbound_error"
       /\ (pc \notin {"start", "simulate"} => it >= 1)
       /\ (returned => bakes >= 1 /\ Len(settledLog) >= 1 /\ obj_poses = captured.poses)
  /\ outcome = "unbound_error" => (~ValidConfig /\ bakes = 0 /\ ~returned)

\* C18 witness: a run of a single-item range that returned its snapshot
C18_Witness ==
  /\ ValidConfig
  /\ min_simulation_iterations + 1 = max_simulation_iterations
  /\ pc = "done"
  /\ returned
  /\ bakes = 1

\* C19: without an ACTIVE mesh body, a run with min < max and step > 0 makes one
\* bake/free cycle at frame min, the evaluator answers "settled" on the empty
\* snapshots, the empty snapshot is returned and no transform is changed.
C19_NoActiveBodies ==
  (ValidConfig /\ ActiveMeshes = {}) =>
     /\ bakes <= 1
     /\ frees <= 1
     /\ UntouchedTransforms
     /\ poseWrites = {}
     /\ (returned =>
           /\ bakes = 1
           /\ frees = 1
           /\ frame_end = min_simulation_iterations
           /\ settledLog = <<TRUE>>
           /\ obj_poses = EmptyPoses)
     /\ (pc = "done" /\ outcome # "backend_error" => returned /\ outcome = "ok")

\* C19 witness: a PASSIVE floor and a light, room for three iterations, one was made
C19_Witness ==
  /\ pc = "done"
  /\ outcome = "ok"
  /\ objects["floor"] = [type |-> "MESH", physics |-> "passive"]
  /\ objects["cube"].type = "LIGHT"
  /\ RangeLen(min_simulation_iterations, max_simulation_iterations,
              simulation_iterations_increase_step) = 3
  /\ bakes = 1

\* C20: after a run that ended normally, the stored location and rotation of every
\* ACTIVE mesh are its pose in the returned snapshot of the last frame, those are the
\* only objects written, and every other object has the transform it had before.
C20_OnlyActiveMeshesMoved ==
  (pc = "done" /\ outcome = "ok") =>
     /\ obj_poses = captured.poses
     /\ captured.frame = frame_end
     /\ poseWrites = ActiveMeshes
     /\ \A o \in Objects :
           stored[o] = IF o \in ActiveMeshes THEN obj_poses[o] ELSE InitialPose

\* C20 witness: the ACTIVE cube was turned, the PASSIVE floor kept its transform
C20_Witness ==
  /\ pc = "done"
  /\ outcome = "ok"
  /\ objects["cube"] = [type |-> "MESH", physics |-> "active"]
  /\ objects["floor"] = [type |-> "MESH", physics |-> "passive"]
  /\ stored["cube"] = Pose(Vec(0, 0, 0), Vec(0, 0, 3))
  /\ stored["floor"] = InitialPose

====
